---- MODULE Spec2Model ----
(***************************************************************************)
(* ranges-ext: an ordered set of half-open ranges [start, end) kept in a   *)
(* growable alloc::vec::Vec (RangeSetAllocOps) or in a fixed-capacity      *)
(* heapless::Vec<T, N> (RangeSetOps).  An element is a record              *)
(* [start, end, kind, overwritable] (the RangeInfo capability of           *)
(* tests/common.rs: TestRangeWithKind).                                    *)
(***************************************************************************)
EXTENDS Integers, Sequences, FiniteSets, TLC

\* ------------------------------------------------------------------ bounds
\* Range bounds are drawn from 0..MaxVal.
MaxVal == 5
\* The const generic N of heapless::Vec<T, N>.
N == 2
\* The longest batch handed to merge_extend.
MaxBatch == 2

Values == 0 .. MaxVal
Kinds == {"A", "B"}
Elems == [start : Values, end : Values, kind : Kinds, overwritable : BOOLEAN]
Ranges == [start : Values, end : Values]

\* RangeInfo::range and RangeInfo::clone_with_range.
range(e) == [start |-> e.start, end |-> e.end]
clone_with_range(e, s, t) == [e EXCEPT !.start = s, !.end = t]

\* The ranges callers pass: every non-empty range, one empty and one inverted.
CallRanges == {r \in Ranges : r.start < r.end \/ (r.end = 1 /\ r.start \in {1, 2})}
\* The elements callers pass: kind "A" with either flag, kind "B" never
\* overwritable (the code only compares kinds for equality, so overwriting
\* a "B" by an "A" is the mirror image of overwriting an "A" by a "B").
CallElems ==
  {e \in Elems : range(e) \in CallRanges /\ (e.kind = "B" => ~e.overwritable)}
\* The items of a merge_extend batch.
BatchElems ==
  {[start |-> 0, end |-> 2, kind |-> "A", overwritable |-> FALSE],
   [start |-> 1, end |-> 3, kind |-> "B", overwritable |-> FALSE],
   [start |-> 3, end |-> 5, kind |-> "A", overwritable |-> FALSE]}
Batches == UNION {[1 .. n -> BatchElems] : n \in 0 .. MaxBatch}

\* The scratch buffer of the tests holds more elements than any staged
\* sequence: [0u8; 1024] against sets of at most a few elements.
BigScratch == 2 * N + 2

\* ----------------------------------------------------------------- results
Ok == [tag |-> "Ok"]
Capacity == [tag |-> "Capacity"]
Conflict(new, existing) == [tag |-> "Conflict", new |-> new, existing |-> existing]
\* SliceVec::push on a full scratch slice aborts the call.
Panic == [tag |-> "Panic"]

min(a, b) == IF a <= b THEN a ELSE b
max(a, b) == IF a >= b THEN a ELSE b

\* ----------------------------------------------------------------- helpers
\* Mutant: ranges that only touch count as overlapping.
ranges_overlap_closed(r1, r2) == ~(r1.end < r2.start \/ r1.start > r2.end)

ranges_overlap(r1, r2) == ~(r1.end <= r2.start \/ r1.start >= r2.end)

\* [Option<T>; 2] as a pair of sequences of length 0 (None) or 1 (Some).
Some(x) == <<x>>
None == <<>>

\* Mutant: an element that strictly contains the split range loses its
\* right remainder.
split_range_left_only(elem, sr) ==
  IF elem.start < sr.start
    THEN <<Some(clone_with_range(elem, elem.start, min(elem.end, sr.start))), None>>
  ELSE IF elem.end > sr.end
    THEN <<None, Some(clone_with_range(elem, max(elem.start, sr.end), elem.end))>>
  ELSE <<None, None>>

\* Mutant: the remainders are built afresh, with the default flag, instead
\* of being cloned from the element.
split_range_plain(elem, sr) ==
  LET plain(s, t) == [start |-> s, end |-> t, kind |-> elem.kind, overwritable |-> FALSE]
  IN  <<IF elem.start < sr.start
          THEN Some(plain(elem.start, min(elem.end, sr.start))) ELSE None,
        IF elem.end > sr.end
          THEN Some(plain(max(elem.start, sr.end), elem.end)) ELSE None>>

split_range(elem, sr) ==
  LET has_left == elem.start < sr.start
      has_right == elem.end > sr.end
  IN  CASE has_left /\ has_right ->
             <<IF elem.start < sr.start
                 THEN Some(clone_with_range(elem, elem.start, sr.start)) ELSE None,
               IF sr.end < elem.end
                 THEN Some(clone_with_range(elem, sr.end, elem.end)) ELSE None>>
        [] has_left /\ ~has_right ->
             <<IF elem.start < min(elem.end, sr.start)
                 THEN Some(clone_with_range(elem, elem.start, min(elem.end, sr.start)))
                 ELSE None,
               None>>
        [] ~has_left /\ has_right ->
             <<None,
               IF max(elem.start, sr.end) < elem.end
                 THEN Some(clone_with_range(elem, max(elem.start, sr.end), elem.end))
                 ELSE None>>
        [] OTHER -> <<None, None>>

\* split_parts.iter().flatten()
flatten(parts) == parts[1] \o parts[2]

\* ---------------------------------------------------------------- core_ops
\* Mutant: every range counts as valid.
validate_range_always(info) == TRUE

validate_range(info) == info.start < info.end

RECURSIVE check_conflicts_from(_, _, _)
check_conflicts_from(elements, new_info, i) ==
  IF i > Len(elements) THEN Ok
  ELSE LET elem == elements[i]
       IN  IF ~ranges_overlap(range(elem), range(new_info))
             THEN check_conflicts_from(elements, new_info, i + 1)
           ELSE IF elem.kind = new_info.kind
             THEN check_conflicts_from(elements, new_info, i + 1)
           ELSE IF ~elem.overwritable
             THEN Conflict(new_info, elem)
           ELSE check_conflicts_from(elements, new_info, i + 1)

\* Mutant: an overlapping element that is not overwritable conflicts
\* whatever its kind.
RECURSIVE check_conflicts_any_kind_from(_, _, _)
check_conflicts_any_kind_from(elements, new_info, i) ==
  IF i > Len(elements) THEN Ok
  ELSE LET elem == elements[i]
       IN  IF ~ranges_overlap(range(elem), range(new_info))
             THEN check_conflicts_any_kind_from(elements, new_info, i + 1)
           ELSE IF ~elem.overwritable
             THEN Conflict(new_info, elem)
           ELSE check_conflicts_any_kind_from(elements, new_info, i + 1)
check_conflicts_any_kind(elements, new_info) ==
  check_conflicts_any_kind_from(elements, new_info, 1)

\* Mutant: the scan runs from the last element to the first.
RECURSIVE check_conflicts_downwards(_, _, _)
check_conflicts_downwards(elements, new_info, i) ==
  IF i < 1 THEN Ok
  ELSE LET elem == elements[i]
       IN  IF /\ ranges_overlap(range(elem), range(new_info))
              /\ elem.kind # new_info.kind
              /\ ~elem.overwritable
             THEN Conflict(new_info, elem)
             ELSE check_conflicts_downwards(elements, new_info, i - 1)
check_conflicts_last(elements, new_info) ==
  check_conflicts_downwards(elements, new_info, Len(elements))

\* Mutant: the conflict scan is skipped.
check_conflicts_none(elements, new_info) == Ok

check_conflicts(elements, new_info) == check_conflicts_from(elements, new_info, 1)

\* slice::binary_search_by with a comparator that never answers Equal:
\* Less when e.start < new_start, Greater otherwise.  Indices are 0-based
\* as in the source; elements[i + 1] is the source's self[i].
\* Mutant: an element whose start equals new_start compares Less.
RECURSIVE find_insert_loop_after(_, _, _, _)
find_insert_loop_after(elements, new_start, left, right) ==
  IF left >= right THEN left
  ELSE LET mid == left + ((right - left) \div 2)
       IN  IF elements[mid + 1].start <= new_start
             THEN find_insert_loop_after(elements, new_start, mid + 1, right)
             ELSE find_insert_loop_after(elements, new_start, left, mid)

RECURSIVE find_insert_loop(_, _, _, _)
find_insert_loop(elements, new_start, left, right) ==
  IF left >= right THEN left
  ELSE LET mid == left + ((right - left) \div 2)
       IN  IF elements[mid + 1].start < new_start
             THEN find_insert_loop(elements, new_start, mid + 1, right)
             ELSE find_insert_loop(elements, new_start, left, mid)

\* Mutant: the new element is always appended.
find_insert_position_append(elements, new_range) == Len(elements)

find_insert_position(elements, new_range) ==
  find_insert_loop(elements, new_range.start, 0, Len(elements))

\* Mutant: the end of a range counts as inside it.
RECURSIVE contains_loop_inclusive(_, _, _, _)
contains_loop_inclusive(elements, value, left, right) ==
  IF left >= right THEN FALSE
  ELSE LET mid == left + ((right - left) \div 2)
           e == elements[mid + 1]
       IN  IF e.end < value THEN contains_loop_inclusive(elements, value, mid + 1, right)
           ELSE IF e.start > value THEN contains_loop_inclusive(elements, value, left, mid)
           ELSE TRUE

\* slice::binary_search_by(..).is_ok() with the three-way comparator.
RECURSIVE contains_loop(_, _, _, _)
contains_loop(elements, value, left, right) ==
  IF left >= right THEN FALSE
  ELSE LET mid == left + ((right - left) \div 2)
           e == elements[mid + 1]
       IN  IF e.end <= value THEN contains_loop(elements, value, mid + 1, right)
           ELSE IF e.start > value THEN contains_loop(elements, value, left, mid)
           ELSE TRUE

contains_point(elements, value) == contains_loop(elements, value, 0, Len(elements))

\* ------------------------------------------------- container operations
\* Vec::remove(index), 0-based.
vec_remove(v, index) == SubSeq(v, 1, index) \o SubSeq(v, index + 2, Len(v))
\* Vec::insert(index, element), 0-based.
vec_insert(v, index, element) ==
  SubSeq(v, 1, index) \o <<element>> \o SubSeq(v, index + 1, Len(v))

\* ---------------------------------------------------- merge_add, staged
\* Mutant: overlapped elements of another kind are staged whole.
overwrite_pass_keep(elements, new_info, i) == SubSeq(elements, i, Len(elements))

\* The overwrite pass: for elem in self.drain(..) { ... out.push(..) }.
RECURSIVE overwrite_pass(_, _, _)
overwrite_pass(elements, new_info, i) ==
  IF i > Len(elements) THEN <<>>
  ELSE LET elem == elements[i]
           rest == overwrite_pass(elements, new_info, i + 1)
       IN  IF ~ranges_overlap(range(elem), range(new_info)) THEN <<elem>> \o rest
           ELSE IF elem.kind = new_info.kind THEN <<elem>> \o rest
           ELSE flatten(split_range(elem, range(new_info))) \o rest

\* The merge loops work on (self, insert_at, merged_range).
\* Mutant: the absorbed left neighbour does not widen the merged range.
RECURSIVE merge_left_narrow(_, _)
merge_left_narrow(st, new_info) ==
  IF st.insert_at > 0
    THEN LET left == st.v[st.insert_at]
         IN  IF left.end < st.merged.start \/ left.kind # new_info.kind
               THEN st
               ELSE merge_left_narrow(
                      [v |-> vec_remove(st.v, st.insert_at - 1),
                       insert_at |-> st.insert_at - 1,
                       merged |-> st.merged],
                      new_info)
    ELSE st

\* Mutant: a left neighbour that only touches the merged range is not absorbed.
RECURSIVE merge_left_strict(_, _)
merge_left_strict(st, new_info) ==
  IF st.insert_at > 0
    THEN LET left == st.v[st.insert_at]
         IN  IF left.end <= st.merged.start \/ left.kind # new_info.kind
               THEN st
               ELSE merge_left_strict(
                      [v |-> vec_remove(st.v, st.insert_at - 1),
                       insert_at |-> st.insert_at - 1,
                       merged |-> [start |-> min(st.merged.start, left.start),
                                   end |-> max(st.merged.end, left.end)]],
                      new_info)
    ELSE st

RECURSIVE merge_left(_, _)
merge_left(st, new_info) ==
  IF st.insert_at > 0
    THEN LET left == st.v[st.insert_at]   \* self[insert_at - 1]
         IN  IF left.end < st.merged.start \/ left.kind # new_info.kind
               THEN st
               ELSE merge_left(
                      [v |-> vec_remove(st.v, st.insert_at - 1),
                       insert_at |-> st.insert_at - 1,
                       merged |-> [start |-> min(st.merged.start, left.start),
                                   end |-> max(st.merged.end, left.end)]],
                      new_info)
    ELSE st

\* Mutant: a right neighbour that only touches the merged range is not absorbed.
RECURSIVE merge_right_strict(_, _)
merge_right_strict(st, new_info) ==
  IF st.insert_at < Len(st.v)
    THEN LET right == st.v[st.insert_at + 1]
         IN  IF right.start >= st.merged.end \/ right.kind # new_info.kind
               THEN st
               ELSE merge_right_strict(
                      [v |-> vec_remove(st.v, st.insert_at),
                       insert_at |-> st.insert_at,
                       merged |-> [start |-> min(st.merged.start, right.start),
                                   end |-> max(st.merged.end, right.end)]],
                      new_info)
    ELSE st

RECURSIVE merge_right(_, _)
merge_right(st, new_info) ==
  IF st.insert_at < Len(st.v)
    THEN LET right == st.v[st.insert_at + 1]   \* self[insert_at]
         IN  IF right.start > st.merged.end \/ right.kind # new_info.kind
               THEN st
               ELSE merge_right(
                      [v |-> vec_remove(st.v, st.insert_at),
                       insert_at |-> st.insert_at,
                       merged |-> [start |-> min(st.merged.start, right.start),
                                   end |-> max(st.merged.end, right.end)]],
                      new_info)
    ELSE st

\* Mutant: the merge loops do not compare kinds.
RECURSIVE merge_left_any_kind(_, _)
merge_left_any_kind(st, new_info) ==
  IF st.insert_at > 0
    THEN LET left == st.v[st.insert_at]
         IN  IF left.end < st.merged.start
               THEN st
               ELSE merge_left_any_kind(
                      [v |-> vec_remove(st.v, st.insert_at - 1),
                       insert_at |-> st.insert_at - 1,
                       merged |-> [start |-> min(st.merged.start, left.start),
                                   end |-> max(st.merged.end, left.end)]],
                      new_info)
    ELSE st

merge_neighbours_any_kind(v, new_info) ==
  merge_right(
    merge_left_any_kind([v |-> v,
                         insert_at |-> find_insert_position(v, range(new_info)),
                         merged |-> range(new_info)],
                        new_info),
    new_info)

\* Mutant: the merge loops are skipped.
merge_neighbours_none(v, new_info) ==
  [v |-> v,
   insert_at |-> find_insert_position(v, range(new_info)),
   merged |-> range(new_info)]

\* Binary search, then the left and the right merge loop.
merge_neighbours(v, new_info) ==
  merge_right(
    merge_left([v |-> v,
                insert_at |-> find_insert_position(v, range(new_info)),
                merged |-> range(new_info)],
               new_info),
    new_info)

\* ------------------------------------------------- alloc::vec::Vec backing
\* An operation yields the vector it leaves behind and the value it returns.
\* Mutant: the merged element stays non-overwritable when an absorbed
\* element was.
alloc_merge_add_keeps_flag(v, new_info) ==
  IF ~validate_range(new_info) THEN [set |-> v, res |-> Ok]
  ELSE LET c == check_conflicts(v, new_info)
       IN  IF c.tag # "Ok" THEN [set |-> v, res |-> c]
           ELSE LET out == overwrite_pass(v, new_info, 1)
                IN  IF out = <<>> THEN [set |-> <<new_info>>, res |-> Ok]
                    ELSE LET m == merge_neighbours(out, new_info)
                             absorbed == {out[i] : i \in DOMAIN out} \ {m.v[i] : i \in DOMAIN m.v}
                             merged == clone_with_range(new_info, m.merged.start, m.merged.end)
                         IN  [set |-> vec_insert(m.v, m.insert_at,
                                        [merged EXCEPT !.overwritable =
                                           new_info.overwritable
                                           /\ \A e \in absorbed : e.overwritable]),
                              res |-> Ok]

\* Mutant: the final insert fails on a vector that holds N elements.
alloc_merge_add_bounded(v, new_info) ==
  IF ~validate_range(new_info) THEN [set |-> v, res |-> Ok]
  ELSE LET c == check_conflicts(v, new_info)
       IN  IF c.tag # "Ok" THEN [set |-> v, res |-> c]
           ELSE LET out == overwrite_pass(v, new_info, 1)
                IN  IF out = <<>> THEN [set |-> <<new_info>>, res |-> Ok]
                    ELSE LET m == merge_neighbours(out, new_info)
                         IN  IF Len(m.v) >= N THEN [set |-> m.v, res |-> Capacity]
                             ELSE [set |-> vec_insert(m.v, m.insert_at,
                                             clone_with_range(new_info, m.merged.start,
                                                              m.merged.end)),
                                   res |-> Ok]

alloc_merge_add(v, new_info) ==
  IF ~validate_range(new_info) THEN [set |-> v, res |-> Ok]
  ELSE LET c == check_conflicts(v, new_info)
       IN  IF c.tag # "Ok" THEN [set |-> v, res |-> c]
           ELSE LET out == overwrite_pass(v, new_info, 1)
                IN  IF out = <<>> THEN [set |-> <<new_info>>, res |-> Ok]
                    ELSE LET m == merge_neighbours(out, new_info)
                         IN  [set |-> vec_insert(m.v, m.insert_at,
                                        clone_with_range(new_info, m.merged.start, m.merged.end)),
                              res |-> Ok]

\* Mutant: an element that is not overwritable is kept whole.
RECURSIVE split_pass_protects(_, _, _)
split_pass_protects(elements, r, i) ==
  IF i > Len(elements) THEN <<>>
  ELSE LET elem == elements[i]
           rest == split_pass_protects(elements, r, i + 1)
       IN  IF ~ranges_overlap(range(elem), r) \/ ~elem.overwritable THEN <<elem>> \o rest
           ELSE flatten(split_range(elem, r)) \o rest

\* The split pass of merge_remove.
RECURSIVE split_pass(_, _, _)
split_pass(elements, r, i) ==
  IF i > Len(elements) THEN <<>>
  ELSE LET elem == elements[i]
           rest == split_pass(elements, r, i + 1)
       IN  IF ~ranges_overlap(range(elem), r) THEN <<elem>> \o rest
           ELSE flatten(split_range(elem, r)) \o rest

alloc_merge_remove(v, r) ==
  IF r.start >= r.end \/ v = <<>> THEN [set |-> v, res |-> Ok]
  ELSE [set |-> split_pass(v, r, 1), res |-> Ok]

\* Mutant: an item that fails is skipped and the batch goes on.
RECURSIVE alloc_merge_extend_continue(_, _, _)
alloc_merge_extend_continue(v, ranges, i) ==
  IF i > Len(ranges) THEN [set |-> v, res |-> Ok]
  ELSE alloc_merge_extend_continue(alloc_merge_add(v, ranges[i]).set, ranges, i + 1)

RECURSIVE alloc_merge_extend(_, _, _)
alloc_merge_extend(v, ranges, i) ==
  IF i > Len(ranges) THEN [set |-> v, res |-> Ok]
  ELSE LET a == alloc_merge_add(v, ranges[i])
       IN  IF a.res.tag # "Ok" THEN a
           ELSE alloc_merge_extend(a.set, ranges, i + 1)

\* ------------------------------------------------ heapless::Vec<T, N> backing
\* for i in 0..out_len { self.push(out[i].clone()).map_err(|_| Capacity)?; }
\* on the drained (empty) vector: the first N staged elements fit.
RECURSIVE reversed(_)
reversed(q) == IF q = <<>> THEN <<>> ELSE reversed(Tail(q)) \o <<Head(q)>>

\* Mutant: the copy back fails as soon as the vector would be full.
copy_back_strict(out) ==
  IF Len(out) >= N THEN [set |-> SubSeq(out, 1, N), res |-> Capacity]
  ELSE [set |-> out, res |-> Ok]

\* Mutant: the copy back runs from the last staged element to the first.
copy_back_reversed(out) ==
  IF Len(out) > N THEN [set |-> SubSeq(reversed(out), 1, N), res |-> Capacity]
  ELSE [set |-> reversed(out), res |-> Ok]

copy_back(out) ==
  IF Len(out) > N THEN [set |-> SubSeq(out, 1, N), res |-> Capacity]
  ELSE [set |-> out, res |-> Ok]

\* Mutant: the copy back and the final insert never run out of room.
heapless_merge_add_unbounded(v, new_info, slots) == alloc_merge_add(v, new_info)

\* Mutant: a full vector is rejected before the merge is tried.
heapless_merge_add_eager(v, new_info, slots) ==
  IF ~validate_range(new_info) THEN [set |-> v, res |-> Ok]
  ELSE IF Len(v) >= N THEN [set |-> v, res |-> Capacity]
  ELSE LET a == alloc_merge_add(v, new_info)
       IN  IF Len(a.set) > N THEN [set |-> v, res |-> Capacity] ELSE a

\* slots is the number of elements the scratch slice holds
\* (temp_buffer.len() / size_of::<T>()); SliceVec::push beyond it panics,
\* and the unwound Drain leaves the vector empty.
heapless_merge_add(v, new_info, slots) ==
  IF ~validate_range(new_info) THEN [set |-> v, res |-> Ok]
  ELSE LET c == check_conflicts(v, new_info)
       IN  IF c.tag # "Ok" THEN [set |-> v, res |-> c]
           ELSE LET out == overwrite_pass(v, new_info, 1)
                    back == copy_back(out)
                IN  IF Len(out) > slots THEN [set |-> <<>>, res |-> Panic]
                    ELSE IF back.res.tag # "Ok" THEN back
                    ELSE IF back.set = <<>>
                      THEN IF N = 0 THEN [set |-> <<>>, res |-> Capacity]
                           ELSE [set |-> <<new_info>>, res |-> Ok]
                    ELSE LET m == merge_neighbours(back.set, new_info)
                         IN  IF Len(m.v) >= N THEN [set |-> m.v, res |-> Capacity]
                             ELSE [set |-> vec_insert(m.v, m.insert_at,
                                             clone_with_range(new_info, m.merged.start,
                                                              m.merged.end)),
                                   res |-> Ok]

\* Mutant: the staged elements are copied back last to first.
heapless_merge_remove_reversed(v, r, slots) ==
  IF r.start >= r.end \/ v = <<>> THEN [set |-> v, res |-> Ok]
  ELSE copy_back(reversed(split_pass(v, r, 1)))

\* Mutant: the staging needs one spare slot.
heapless_merge_remove_tight(v, r, slots) ==
  IF r.start >= r.end \/ v = <<>> THEN [set |-> v, res |-> Ok]
  ELSE LET out == split_pass(v, r, 1)
       IN  IF Len(out) >= slots THEN [set |-> <<>>, res |-> Panic]
           ELSE copy_back(out)

heapless_merge_remove(v, r, slots) ==
  IF r.start >= r.end \/ v = <<>> THEN [set |-> v, res |-> Ok]
  ELSE LET out == split_pass(v, r, 1)
       IN  IF Len(out) > slots THEN [set |-> <<>>, res |-> Panic]
           ELSE copy_back(out)

RECURSIVE heapless_merge_extend(_, _, _, _)
heapless_merge_extend(v, ranges, slots, i) ==
  IF i > Len(ranges) THEN [set |-> v, res |-> Ok]
  ELSE LET a == heapless_merge_add(v, ranges[i], slots)
       IN  IF a.res.tag # "Ok" THEN a
           ELSE heapless_merge_extend(a.set, ranges, slots, i + 1)

\* ------------------------------ heapless::Vec, the scratch region as it is
\* A SliceVec: the slice it borrows and the number of elements in use.
\* Mutant: the whole slice counts as in use.
from_slice_len_full(slice, len) == [data |-> slice, len |-> Len(slice), panicked |-> FALSE]

\* SliceVec::from_slice_len(slice, len)
from_slice_len(slice, len) == [data |-> slice, len |-> len, panicked |-> FALSE]

\* SliceVec::push for each element of xs in turn; a push on a full
\* SliceVec panics.
RECURSIVE push_all(_, _)
push_all(sv, xs) ==
  IF xs = <<>> \/ sv.panicked THEN sv
  ELSE IF sv.len >= Len(sv.data) THEN [sv EXCEPT !.panicked = TRUE]
  ELSE push_all([sv EXCEPT !.data[sv.len + 1] = Head(xs), !.len = sv.len + 1], Tail(xs))

\* out[0], ..., out[out.len() - 1]
as_slice(sv) == SubSeq(sv.data, 1, sv.len)

\* merge_add from the copy back on, out being what the scratch region holds.
add_after_staging(out, new_info) ==
  LET back == copy_back(out)
  IN  IF back.res.tag # "Ok" THEN back
      ELSE IF back.set = <<>>
        THEN IF N = 0 THEN [set |-> <<>>, res |-> Capacity]
             ELSE [set |-> <<new_info>>, res |-> Ok]
      ELSE LET m == merge_neighbours(back.set, new_info)
           IN  IF Len(m.v) >= N THEN [set |-> m.v, res |-> Capacity]
               ELSE [set |-> vec_insert(m.v, m.insert_at,
                               clone_with_range(new_info, m.merged.start, m.merged.end)),
                     res |-> Ok]

\* merge_add with the scratch region slice: the vector and the region it
\* leaves behind and the value it returns.
heapless_merge_add_in(v, new_info, slice) ==
  IF ~validate_range(new_info) THEN [set |-> v, res |-> Ok, temp |-> slice]
  ELSE LET c == check_conflicts(v, new_info)
       IN  IF c.tag # "Ok" THEN [set |-> v, res |-> c, temp |-> slice]
           ELSE LET out == push_all(from_slice_len(slice, 0), overwrite_pass(v, new_info, 1))
                    r == add_after_staging(as_slice(out), new_info)
                IN  IF out.panicked THEN [set |-> <<>>, res |-> Panic, temp |-> out.data]
                    ELSE [set |-> r.set, res |-> r.res, temp |-> out.data]

heapless_merge_remove_in(v, r, slice) ==
  IF r.start >= r.end \/ v = <<>> THEN [set |-> v, res |-> Ok, temp |-> slice]
  ELSE LET out == push_all(from_slice_len(slice, 0), split_pass(v, r, 1))
           back == copy_back(as_slice(out))
       IN  IF out.panicked THEN [set |-> <<>>, res |-> Panic, temp |-> out.data]
           ELSE [set |-> back.set, res |-> back.res, temp |-> out.data]

\* ------------------------------------------- the loops, one iteration each
\* One pass through `while insert_at > 0 { ... }` on (self, insert_at,
\* merged_range): the state it leaves and whether the loop goes on.
\* Mutant: the absorbed neighbour is not removed and insert_at stays.
left_iteration_stuck(st, new_info) ==
  IF st.insert_at > 0
    THEN LET left == st.v[st.insert_at]
         IN  IF left.end < st.merged.start \/ left.kind # new_info.kind
               THEN [st |-> st, again |-> FALSE]
               ELSE [st |-> [st EXCEPT !.merged = [start |-> min(st.merged.start, left.start),
                                                  end |-> max(st.merged.end, left.end)]],
                     again |-> TRUE]
    ELSE [st |-> st, again |-> FALSE]

left_iteration(st, new_info) ==
  IF st.insert_at > 0
    THEN LET left == st.v[st.insert_at]   \* self[insert_at - 1]
         IN  IF left.end < st.merged.start \/ left.kind # new_info.kind
               THEN [st |-> st, again |-> FALSE]
               ELSE [st |-> [v |-> vec_remove(st.v, st.insert_at - 1),
                             insert_at |-> st.insert_at - 1,
                             merged |-> [start |-> min(st.merged.start, left.start),
                                         end |-> max(st.merged.end, left.end)]],
                     again |-> TRUE]
    ELSE [st |-> st, again |-> FALSE]

\* One pass through `while insert_at < self.len() { ... }`.
right_iteration(st, new_info) ==
  IF st.insert_at < Len(st.v)
    THEN LET right == st.v[st.insert_at + 1]   \* self[insert_at]
         IN  IF right.start > st.merged.end \/ right.kind # new_info.kind
               THEN [st |-> st, again |-> FALSE]
               ELSE [st |-> [v |-> vec_remove(st.v, st.insert_at),
                             insert_at |-> st.insert_at,
                             merged |-> [start |-> min(st.merged.start, right.start),
                                         end |-> max(st.merged.end, right.end)]],
                     again |-> TRUE]
    ELSE [st |-> st, again |-> FALSE]

\* One pass through the body of `for elem in self.drain(..)` of
\* merge_remove: what it pushes to out.
scan_iteration(elem, r) ==
  IF ~ranges_overlap(range(elem), r) THEN <<elem>>
  ELSE flatten(split_range(elem, r))

\* merge_contains_point of both backings.
merge_contains_point(v, value) == contains_point(v, value)

\* ------------------------------------------------------------------- state
VARIABLES
  backing,   \* "alloc": the set is a Vec<T>; "heapless": a heapless::Vec<T, N>
  set,       \* the stored sequence
  pc,        \* "ready": between calls; "returned": a call has just returned
  call,      \* the call that has just returned
  pre,       \* the stored sequence when that call was made
  res,       \* the value that call returned
  clean,     \* every call so far returned Ok
  aset,      \* a Vec<T> that is given the same calls as a heapless::Vec<T, N>
  ares,      \* the value the last call on that Vec<T> returned
  temp,      \* the scratch region, as typed elements, when its contents matter
  loop       \* the local variables of a call that is followed step by step

vars == <<backing, set, pc, call, pre, res, clean, aset, ares, temp, loop>>

NoCall == [op |-> "none"]
\* No call is being followed: insert_at, merged_range, the drain iterator,
\* out, and the iterations of the left loop, the right loop and the scan.
NoLoop ==
  [phase |-> "none", insert_at |-> 0, merged |-> [start |-> 0, end |-> 0],
   rest |-> <<>>, out |-> <<>>, left |-> 0, right |-> 0, scan |-> 0]

Init ==
  /\ backing \in {"alloc", "heapless"}
  /\ set = <<>>
  /\ pc = "ready"
  /\ call = NoCall
  /\ pre = <<>>
  /\ res = Ok
  /\ clean = TRUE
  /\ aset = <<>>
  /\ ares = Ok
  /\ temp = <<>>
  /\ loop = NoLoop

Returns(c, r) ==
  /\ pc = "ready"
  /\ pc' = "returned"
  /\ call' = c
  /\ pre' = set
  /\ set' = r.set
  /\ res' = r.res
  /\ clean' = (clean /\ r.res.tag = "Ok")
  /\ UNCHANGED <<backing, aset, ares, temp, loop>>

AllocMergeAdd ==
  /\ backing = "alloc"
  /\ \E new_info \in CallElems :
       Returns([op |-> "add", info |-> new_info], alloc_merge_add(set, new_info))

AllocMergeRemove ==
  /\ backing = "alloc"
  /\ \E r \in CallRanges :
       Returns([op |-> "remove", range |-> r], alloc_merge_remove(set, r))

AllocMergeExtend ==
  /\ backing = "alloc"
  /\ \E ranges \in Batches :
       Returns([op |-> "extend", items |-> ranges], alloc_merge_extend(set, ranges, 1))

HeaplessMergeAdd ==
  /\ backing = "heapless"
  /\ \E new_info \in CallElems :
       Returns([op |-> "add", info |-> new_info],
               heapless_merge_add(set, new_info, BigScratch))

HeaplessMergeRemove ==
  /\ backing = "heapless"
  /\ \E r \in CallRanges :
       Returns([op |-> "remove", range |-> r], heapless_merge_remove(set, r, BigScratch))

HeaplessMergeExtend ==
  /\ backing = "heapless"
  /\ \E ranges \in Batches :
       Returns([op |-> "extend", items |-> ranges],
               heapless_merge_extend(set, ranges, BigScratch, 1))

\* The caller has looked at the returned value and goes on to its next call.
NextCall ==
  /\ pc = "returned"
  /\ pc' = "ready"
  /\ call' = NoCall
  /\ pre' = <<>>
  /\ res' = Ok
  /\ UNCHANGED <<backing, set, clean, aset, ares, temp, loop>>

Next ==
  \/ AllocMergeAdd
  \/ AllocMergeRemove
  \/ AllocMergeExtend
  \/ HeaplessMergeAdd
  \/ HeaplessMergeRemove
  \/ HeaplessMergeExtend
  \/ NextCall

Spec == Init /\ [][Next]_vars

\* ------------------------------------------- adds to a fresh set, in any order
\* The elements of one kind that differ only in their range.
OrderElems ==
  {e \in Elems : e.start < e.end /\ e.kind = "A" /\ ~e.overwritable}
\* One more element than a fixed-capacity set holds.
MaxAdds == N + 1
\* The orders in which a caller adds a collection of distinct elements.
Orders ==
  UNION {{q \in [1 .. n -> OrderElems] : \A i, j \in 1 .. n : q[i] = q[j] => i = j} :
           n \in 0 .. MaxAdds}

\* set.merge_add(items[1]); set.merge_add(items[2]); ... as the tests call
\* it, one call after the other: the vector left behind and the first
\* error any of the calls returned (Ok if none did).
RECURSIVE add_each(_, _, _, _)
add_each(b, v, items, i) ==
  IF i > Len(items) THEN [set |-> v, res |-> Ok]
  ELSE LET a == IF b = "alloc" THEN alloc_merge_add(v, items[i])
                ELSE heapless_merge_add(v, items[i], BigScratch)
           rest == add_each(b, a.set, items, i + 1)
       IN  [set |-> rest.set, res |-> IF a.res.tag # "Ok" THEN a.res ELSE rest.res]

AddsInOrder ==
  /\ pc = "ready"
  /\ set = <<>>
  /\ \E items \in Orders :
       LET r == add_each(backing, set, items, 1)
       IN  /\ call' = [op |-> "adds", items |-> items]
           /\ set' = r.set
           /\ res' = r.res
           /\ clean' = (r.res.tag = "Ok")
  /\ pc' = "returned"
  /\ pre' = set
  /\ UNCHANGED <<backing, aset, ares, temp, loop>>

\* The caller drops the set and constructs a new, empty one.
NewSet ==
  /\ pc = "returned"
  /\ pc' = "ready"
  /\ set' = <<>>
  /\ call' = NoCall
  /\ pre' = <<>>
  /\ res' = Ok
  /\ clean' = TRUE
  /\ UNCHANGED <<backing, aset, ares, temp, loop>>

NextOrder ==
  \/ AddsInOrder
  \/ NewSet

SpecOrder == Init /\ [][NextOrder]_vars

\* ------------------------- the same calls on a heapless::Vec and on a Vec
InitPair == Init /\ backing = "heapless"

\* h is what the call does on the heapless::Vec, a what it does on the Vec.
PairReturns(c, h, a) ==
  /\ pc = "ready"
  /\ pc' = "returned"
  /\ call' = c
  /\ pre' = set
  /\ set' = h.set
  /\ res' = h.res
  /\ aset' = a.set
  /\ ares' = a.res
  /\ clean' = (clean /\ h.res.tag = "Ok")
  /\ UNCHANGED <<backing, temp, loop>>

PairMergeAdd ==
  \E new_info \in CallElems :
    PairReturns([op |-> "add", info |-> new_info],
                heapless_merge_add(set, new_info, BigScratch),
                alloc_merge_add(aset, new_info))

PairMergeRemove ==
  \E r \in CallRanges :
    PairReturns([op |-> "remove", range |-> r],
                heapless_merge_remove(set, r, BigScratch),
                alloc_merge_remove(aset, r))

PairMergeExtend ==
  \E ranges \in Batches :
    PairReturns([op |-> "extend", items |-> ranges],
                heapless_merge_extend(set, ranges, BigScratch, 1),
                alloc_merge_extend(aset, ranges, 1))

\* The sequence of calls goes on for as long as the heapless::Vec has not
\* returned Capacity.
PairNextCall ==
  /\ pc = "returned"
  /\ res.tag # "Capacity"
  /\ pc' = "ready"
  /\ call' = NoCall
  /\ pre' = <<>>
  /\ res' = Ok
  /\ ares' = Ok
  /\ UNCHANGED <<backing, set, clean, aset, temp, loop>>

NextPair ==
  \/ PairMergeAdd
  \/ PairMergeRemove
  \/ PairMergeExtend
  \/ PairNextCall

SpecPair == InitPair /\ [][NextPair]_vars

\* ---------------------- a heapless::Vec with a scratch buffer of any size
\* temp_buffer.len() / size_of::<T>(): the caller chooses it for each call.
\* An empty buffer, one with room for the N elements the vector can hold,
\* and one with room for one element more.
ScratchSizes == {0, N, N + 1}

InitScratch == Init /\ backing = "heapless"

ScratchMergeAdd ==
  /\ backing = "heapless"
  /\ \E new_info \in CallElems, slots \in ScratchSizes :
       Returns([op |-> "add", info |-> new_info, slots |-> slots],
               heapless_merge_add(set, new_info, slots))

ScratchMergeRemove ==
  /\ backing = "heapless"
  /\ \E r \in CallRanges, slots \in ScratchSizes :
       Returns([op |-> "remove", range |-> r, slots |-> slots],
               heapless_merge_remove(set, r, slots))

ScratchMergeExtend ==
  /\ backing = "heapless"
  /\ \E ranges \in Batches, slots \in ScratchSizes :
       Returns([op |-> "extend", items |-> ranges, slots |-> slots],
               heapless_merge_extend(set, ranges, slots, 1))

\* A call that panicked has not returned: the caller does not go on.
ScratchNextCall ==
  /\ res.tag # "Panic"
  /\ NextCall

NextScratch ==
  \/ ScratchMergeAdd
  \/ ScratchMergeRemove
  \/ ScratchMergeExtend
  \/ ScratchNextCall

SpecScratch == InitScratch /\ [][NextScratch]_vars

\* ------------------------- a heapless::Vec and a scratch region it reuses
\* What a region holds when the caller first hands it over: zeroed bytes
\* ([0u8; 1024]), or what a call on another set has left in it.
FreshTemp ==
  [i \in 1 .. (N + 1) |-> [start |-> 0, end |-> 0, kind |-> "A", overwritable |-> FALSE]]
UsedTemps ==
  {[i \in 1 .. (N + 1) |-> e] :
     e \in {[start |-> 0, end |-> MaxVal, kind |-> "B", overwritable |-> FALSE],
            [start |-> 1, end |-> 2, kind |-> "A", overwritable |-> TRUE]}}

\* The calls made with the region: the elements of the batches and one
\* overwritable element, and ranges that cut them at either end and inside.
ReuseElems ==
  BatchElems \cup {[start |-> 0, end |-> 4, kind |-> "A", overwritable |-> TRUE]}
ReuseRanges ==
  {[start |-> 1, end |-> 2], [start |-> 0, end |-> 3], [start |-> 2, end |-> 5]}

InitReuse == Init /\ backing = "heapless"

\* The caller takes a region: a fresh one, or one that was used elsewhere.
TakeBuffer ==
  /\ pc = "ready"
  /\ temp = <<>>
  /\ temp' \in {FreshTemp} \cup UsedTemps
  /\ UNCHANGED <<backing, set, pc, call, pre, res, clean, aset, ares, loop>>

ReuseReturns(c, r) ==
  /\ pc = "ready"
  /\ temp # <<>>
  /\ pc' = "returned"
  /\ call' = c
  /\ pre' = set
  /\ set' = r.set
  /\ res' = r.res
  /\ temp' = r.temp
  /\ clean' = (clean /\ r.res.tag = "Ok")
  /\ UNCHANGED <<backing, aset, ares, loop>>

ReuseMergeAdd ==
  \E new_info \in ReuseElems :
    ReuseReturns([op |-> "add", info |-> new_info],
                 heapless_merge_add_in(set, new_info, temp))

ReuseMergeRemove ==
  \E r \in ReuseRanges :
    ReuseReturns([op |-> "remove", range |-> r], heapless_merge_remove_in(set, r, temp))

NextReuse ==
  \/ TakeBuffer
  \/ ReuseMergeAdd
  \/ ReuseMergeRemove
  \/ NextCall

SpecReuse == InitReuse /\ [][NextReuse]_vars

\* ----------------------------------- merge_add and merge_remove step by step
InitLoops == Init

\* The elements added: those of ReuseElems and one that touches a
\* neighbour on each side.
LoopElems ==
  ReuseElems \cup {[start |-> 2, end |-> 3, kind |-> "A", overwritable |-> FALSE]}

\* The call returns r.
LoopReturns(r) ==
  /\ pc' = "returned"
  /\ set' = r.set
  /\ res' = r.res
  /\ clean' = (clean /\ r.res.tag = "Ok")

\* merge_add up to the binary search.
LoopStartAdd ==
  /\ pc = "ready"
  /\ \E new_info \in LoopElems :
       LET c == check_conflicts(set, new_info)
           out == overwrite_pass(set, new_info, 1)
           back == IF backing = "alloc" THEN [set |-> out, res |-> Ok] ELSE copy_back(out)
       IN  /\ call' = [op |-> "add", info |-> new_info]
           /\ pre' = set
           /\ IF ~validate_range(new_info)
                 THEN LoopReturns([set |-> set, res |-> Ok]) /\ UNCHANGED loop
               ELSE IF c.tag # "Ok"
                 THEN LoopReturns([set |-> set, res |-> c]) /\ UNCHANGED loop
               ELSE IF back.res.tag # "Ok"
                 THEN LoopReturns(back) /\ UNCHANGED loop
               ELSE IF back.set = <<>>
                 THEN LoopReturns([set |-> <<new_info>>, res |-> Ok]) /\ UNCHANGED loop
               ELSE /\ pc' = "running"
                    /\ set' = back.set
                    /\ loop' = [NoLoop EXCEPT
                                  !.phase = "left",
                                  !.insert_at = find_insert_position(back.set, range(new_info)),
                                  !.merged = range(new_info)]
                    /\ UNCHANGED <<res, clean>>
  /\ UNCHANGED <<backing, aset, ares, temp>>

LeftStep ==
  /\ pc = "running" /\ loop.phase = "left"
  /\ loop.left <= Len(pre)
  /\ LET it == left_iteration([v |-> set, insert_at |-> loop.insert_at,
                               merged |-> loop.merged], call.info)
     IN  IF it.again
           THEN /\ set' = it.st.v
                /\ loop' = [loop EXCEPT !.insert_at = it.st.insert_at,
                                         !.merged = it.st.merged,
                                         !.left = @ + 1]
           ELSE /\ set' = set
                /\ loop' = [loop EXCEPT !.phase = "right"]
  /\ UNCHANGED <<backing, pc, call, pre, res, clean, aset, ares, temp>>

RightStep ==
  /\ pc = "running" /\ loop.phase = "right"
  /\ loop.right <= Len(pre)
  /\ LET it == right_iteration([v |-> set, insert_at |-> loop.insert_at,
                                merged |-> loop.merged], call.info)
     IN  IF it.again
           THEN /\ set' = it.st.v
                /\ loop' = [loop EXCEPT !.insert_at = it.st.insert_at,
                                         !.merged = it.st.merged,
                                         !.right = @ + 1]
           ELSE /\ set' = set
                /\ loop' = [loop EXCEPT !.phase = "insert"]
  /\ UNCHANGED <<backing, pc, call, pre, res, clean, aset, ares, temp>>

\* self.insert(insert_at, new_info.clone_with_range(merged_range))
FinishAdd ==
  /\ pc = "running" /\ loop.phase = "insert"
  /\ IF backing = "heapless" /\ Len(set) >= N
       THEN LoopReturns([set |-> set, res |-> Capacity])
       ELSE LoopReturns([set |-> vec_insert(set, loop.insert_at,
                                   clone_with_range(call.info, loop.merged.start,
                                                    loop.merged.end)),
                         res |-> Ok])
  /\ loop' = [loop EXCEPT !.phase = "done"]
  /\ UNCHANGED <<backing, call, pre, aset, ares, temp>>

\* merge_remove up to the drain.
LoopStartRemove ==
  /\ pc = "ready"
  /\ \E r \in ReuseRanges :
       /\ call' = [op |-> "remove", range |-> r]
       /\ pre' = set
       /\ IF r.start >= r.end \/ set = <<>>
             THEN LoopReturns([set |-> set, res |-> Ok]) /\ UNCHANGED loop
             ELSE /\ pc' = "running"
                  /\ set' = <<>>
                  /\ loop' = [NoLoop EXCEPT !.phase = "scan", !.rest = set]
                  /\ UNCHANGED <<res, clean>>
  /\ UNCHANGED <<backing, aset, ares, temp>>

ScanStep ==
  /\ pc = "running" /\ loop.phase = "scan"
  /\ loop.rest # <<>>
  /\ loop.scan <= Len(pre)
  /\ loop' = [loop EXCEPT !.rest = Tail(@),
                           !.out = @ \o scan_iteration(Head(loop.rest), call.range),
                           !.scan = @ + 1]
  /\ UNCHANGED <<backing, set, pc, call, pre, res, clean, aset, ares, temp>>

\* *self = out, or the copy back into the heapless::Vec.
FinishRemove ==
  /\ pc = "running" /\ loop.phase = "scan"
  /\ loop.rest = <<>>
  /\ IF backing = "alloc" THEN LoopReturns([set |-> loop.out, res |-> Ok])
     ELSE LoopReturns(copy_back(loop.out))
  /\ loop' = [loop EXCEPT !.phase = "done"]
  /\ UNCHANGED <<backing, call, pre, aset, ares, temp>>

LoopNextCall ==
  /\ pc = "returned"
  /\ pc' = "ready"
  /\ call' = NoCall
  /\ pre' = <<>>
  /\ res' = Ok
  /\ loop' = NoLoop
  /\ UNCHANGED <<backing, set, clean, aset, ares, temp>>

NextLoops ==
  \/ LoopStartAdd
  \/ LeftStep
  \/ RightStep
  \/ FinishAdd
  \/ LoopStartRemove
  \/ ScanStep
  \/ FinishRemove
  \/ LoopNextCall

\* A call that has started runs on: the code is sequential and nothing
\* suspends it.
SpecLoops ==
  /\ InitLoops
  /\ [][NextLoops]_vars
  /\ WF_vars(LeftStep) /\ WF_vars(RightStep) /\ WF_vars(FinishAdd)
  /\ WF_vars(ScanStep) /\ WF_vars(FinishRemove)

\* ------------------------------------ find_insert_position on sorted slices
\* The slices searched: every sequence of at most MaxSearch elements sorted
\* ascending by start, equal starts included.
MaxSearch == N + 2
SearchElems ==
  {[start |-> s, end |-> s + 1, kind |-> "A", overwritable |-> FALSE] :
     s \in 0 .. MaxVal - 1}
SortedSlices ==
  {q \in UNION {[1 .. n -> SearchElems] : n \in 0 .. MaxSearch} :
     \A i \in 1 .. Len(q) - 1 : q[i].start <= q[i + 1].start}

InitSearch ==
  /\ backing = "alloc"
  /\ set \in SortedSlices
  /\ pc = "ready"
  /\ call = NoCall
  /\ pre = <<>>
  /\ res = Ok
  /\ clean = TRUE
  /\ aset = <<>>
  /\ ares = Ok
  /\ temp = <<>>
  /\ loop = NoLoop

\* find_insert_position(&elements, &new_range)
FindInsertPosition ==
  /\ pc = "ready"
  /\ \E new_range \in CallRanges :
       /\ call' = [op |-> "find", range |-> new_range]
       /\ res' = [tag |-> "Ok", pos |-> find_insert_position(set, new_range)]
  /\ pc' = "returned"
  /\ pre' = set
  /\ UNCHANGED <<backing, set, clean, aset, ares, temp, loop>>

NextSearch ==
  \/ FindInsertPosition
  \/ NextCall

SpecSearch == InitSearch /\ [][NextSearch]_vars

\* ================================================================= claims
\* The points of a range: p stands for the unit interval [p, p + 1).
Cells == 0 .. (MaxVal - 1)
Points(r) == {p \in Cells : r.start <= p /\ p < r.end}
\* The kinds of the stored elements that cover p.
KindsAt(v, p) == {v[i].kind : i \in {j \in DOMAIN v : p \in Points(v[j])}}
Returned(op) == pc = "returned" /\ call.op = op

SortedDisjoint(v) ==
  /\ \A i \in DOMAIN v : v[i].start < v[i].end
  /\ \A i \in 1 .. (Len(v) - 1) :
       v[i].start < v[i + 1].start /\ v[i].end <= v[i + 1].start

\* C1: starting from the empty set, after any sequence of successful
\* merge_add / merge_remove / merge_extend calls, on either backing, the
\* stored sequence is sorted strictly ascending by start, every element has
\* start < end, and consecutive elements do not overlap.
C1_SortedDisjoint == clean => SortedDisjoint(set)

\* An out-of-order add: a range in front of the only stored element of a
\* fixed-capacity set, with a gap, fills the set.
C1_Witness ==
  /\ clean /\ Returned("add") /\ backing = "heapless"
  /\ Len(pre) = 1 /\ Len(set) = 2
  /\ call.info.end < pre[1].start

\* C2: after any sequence of successful calls no two consecutive stored
\* elements have the same kind while touching or overlapping.
C2_MaximallyMerged ==
  clean => \A i \in 1 .. (Len(set) - 1) :
             ~(set[i].kind = set[i + 1].kind /\ set[i].end >= set[i + 1].start)

\* An add that bridged two stored elements of its kind into one.
C2_Witness ==
  /\ clean /\ Returned("add") /\ res.tag = "Ok"
  /\ Len(pre) = 2 /\ Len(set) = 1
  /\ pre[1].end = call.info.start /\ call.info.end = pre[2].start

\* e and the new range share a point, differ in kind, and e may not be
\* overwritten.
Blocks(e, new_info) ==
  /\ Points(e) \cap Points(new_info) # {}
  /\ e.kind # new_info.kind
  /\ ~e.overwritable

\* C3: merge_add of a non-empty range that overlaps a stored element of a
\* different kind that is not overwritable returns Conflict{new, existing},
\* new being the incoming element and existing a stored element it collides
\* with, and the stored sequence is exactly as before the call.
C3_ConflictAtomic ==
  (/\ Returned("add")
   /\ call.info.start < call.info.end
   /\ \E i \in DOMAIN pre : Blocks(pre[i], call.info))
  => /\ res.tag = "Conflict"
     /\ res.new = call.info
     /\ \E i \in DOMAIN pre : res.existing = pre[i] /\ Blocks(pre[i], call.info)
     /\ set = pre

\* A conflict on a set that also holds an overwritable element under the
\* new range.
C3_Witness ==
  /\ Returned("add") /\ res.tag = "Conflict"
  /\ Len(pre) = 2
  /\ \E i \in DOMAIN pre :
       /\ pre[i].overwritable /\ pre[i].kind # call.info.kind
       /\ Points(pre[i]) \cap Points(call.info) # {}

\* C4: after a successful merge_add(new) of a non-empty range every point
\* inside new.range is covered by an element of kind new.kind, and every
\* point outside it is covered exactly when it was covered before, by an
\* element of the same kind as before.
C4_AddOverridesCoverage ==
  (Returned("add") /\ res.tag = "Ok" /\ call.info.start < call.info.end)
  => \A p \in Cells :
       KindsAt(set, p) = IF p \in Points(call.info) THEN {call.info.kind}
                         ELSE KindsAt(pre, p)

\* An add that cut into a stored element of another kind and left part of
\* it, next to a stored element the add did not reach.
C4_Witness ==
  /\ Returned("add") /\ res.tag = "Ok"
  /\ Len(pre) = 2 /\ Len(set) = 3
  /\ \E i \in DOMAIN pre :
       /\ pre[i].kind # call.info.kind
       /\ Points(pre[i]) \cap Points(call.info) # {}
       /\ Points(pre[i]) \ Points(call.info) # {}

\* The elements of v that share no point with r, in order.
Untouched(v, r) ==
  LET keep(e) == Points(e) \cap Points(r) = {} IN SelectSeq(v, keep)

\* C5: after a successful merge_remove(range) of a non-empty range no
\* stored element intersects range; every point outside range is covered
\* exactly when it was covered before; an element that strictly contains
\* range is replaced by the two remainders [elem.start, range.start) and
\* [range.end, elem.end); and the elements that do not intersect range are
\* unchanged and keep their relative order.
C5_RemoveSubtracts ==
  (Returned("remove") /\ res.tag = "Ok" /\ call.range.start < call.range.end)
  => LET r == call.range
         kept == Untouched(pre, r)
         isKept(e) == \E i \in DOMAIN kept : kept[i] = e
     IN  /\ \A j \in DOMAIN set : Points(set[j]) \cap Points(r) = {}
         /\ \A p \in Cells \ Points(r) :
              (KindsAt(set, p) # {}) <=> (KindsAt(pre, p) # {})
         /\ \A i \in DOMAIN pre :
              (pre[i].start < r.start /\ r.end < pre[i].end)
              => \E j \in 1 .. (Len(set) - 1) :
                   /\ set[j] = [pre[i] EXCEPT !.end = r.start]
                   /\ set[j + 1] = [pre[i] EXCEPT !.start = r.end]
         /\ SelectSeq(set, isKept) = kept

\* A remove that split one element in two and left another one alone.
C5_Witness ==
  /\ Returned("remove") /\ res.tag = "Ok"
  /\ Len(pre) = 2 /\ Len(set) = 3
  /\ \E i \in DOMAIN pre :
       pre[i].start < call.range.start /\ call.range.end < pre[i].end

\* C6: in every reachable state merge_contains_point(v) is true exactly
\* when some stored element has start <= v < end, for every value v (the
\* values below and above every stored bound included).
C6_ContainsPoint ==
  \A v \in (-1) .. (MaxVal + 1) :
    merge_contains_point(set, v)
      <=> \E i \in DOMAIN set : set[i].start <= v /\ v < set[i].end

\* Three stored elements with a gap: the start of the last one is
\* contained, the end of the first one is not.
C6_Witness ==
  /\ Len(set) = 3
  /\ set[1].end < set[2].start
  /\ merge_contains_point(set, set[3].start)
  /\ ~merge_contains_point(set, set[1].end)

\* The stored elements of the new element's kind that touch or overlap it.
Mergeable(v, new_info) ==
  {i \in DOMAIN v : /\ v[i].kind = new_info.kind
                    /\ v[i].end >= new_info.start
                    /\ v[i].start <= new_info.end}
SetMin(S) == CHOOSE x \in S : \A y \in S : x <= y
SetMax(S) == CHOOSE x \in S : \A y \in S : x >= y

\* C7: when merge_add inserts a range that touches or overlaps one or more
\* stored elements of the same kind, all of them and the new range are
\* replaced by a single element whose range is the union (minimum start,
\* maximum end); a same-kind element separated from the new range by a gap
\* is left as a separate element.
C7_SameKindMerge ==
  (Returned("add") /\ res.tag = "Ok" /\ call.info.start < call.info.end)
  => LET new_info == call.info
         M == Mergeable(pre, new_info)
         lo == SetMin({new_info.start} \cup {pre[i].start : i \in M})
         hi == SetMax({new_info.end} \cup {pre[i].end : i \in M})
         union == [start |-> lo, end |-> hi]
     IN  /\ M # {} =>
               /\ \E j \in DOMAIN set :
                    range(set[j]) = union /\ set[j].kind = new_info.kind
               /\ Cardinality({j \in DOMAIN set :
                                 Points(set[j]) \cap Points(union) # {}}) = 1
         /\ \A i \in DOMAIN pre :
              (/\ pre[i].kind = new_info.kind
               /\ (pre[i].end < new_info.start \/ new_info.end < pre[i].start))
              => \E j \in DOMAIN set : set[j] = pre[i]

\* An add that bridged two stored elements of its kind while a third one,
\* behind a gap, stayed as it was.
C7_Witness ==
  /\ Returned("add") /\ res.tag = "Ok"
  /\ Cardinality(Mergeable(pre, call.info)) = 2
  /\ Len(pre) = 3 /\ Len(set) = 2
  /\ \E i \in DOMAIN pre :
       pre[i].kind = call.info.kind /\ call.info.end < pre[i].start

\* The (point, kind) pairs a call adds.
Adds(c) ==
  CASE c.op = "add" -> {<<p, c.info.kind>> : p \in Points(c.info)}
    [] c.op = "extend" ->
         UNION {{<<p, c.items[n].kind>> : p \in Points(c.items[n])} :
                  n \in DOMAIN c.items}
    [] OTHER -> {}

\* C8: ranges of different kind never merge.  After every call an element
\* of kind k covers a point only if the call added that point with kind k
\* or an element of kind k covered it before (so, from the empty set, every
\* stored element consists of points added with its kind); and a
\* successful merge_add of a range that touches an element of another kind
\* leaves that element unchanged and stores the new range in a separate
\* element.
C8_KindsNeverMerge ==
  pc = "returned"
  => /\ \A p \in Cells : \A k \in KindsAt(set, p) :
          k \in KindsAt(pre, p) \/ <<p, k>> \in Adds(call)
     /\ (call.op = "add" /\ res.tag = "Ok" /\ call.info.start < call.info.end)
        => \A i \in DOMAIN pre :
             (/\ pre[i].kind # call.info.kind
              /\ (pre[i].end = call.info.start \/ call.info.end = pre[i].start))
             => /\ \E j \in DOMAIN set : set[j] = pre[i]
                /\ \E j \in DOMAIN set :
                     /\ set[j].kind = call.info.kind
                     /\ Points(call.info) \subseteq Points(set[j])
                     /\ Points(set[j]) \cap Points(pre[i]) = {}

\* An add between two elements it touches, one of its kind (absorbed) and
\* one of another kind (left alone).
C8_Witness ==
  /\ Returned("add") /\ res.tag = "Ok"
  /\ Len(pre) = 2 /\ Len(set) = 2
  /\ pre[1].end = call.info.start /\ call.info.end = pre[2].start
  /\ pre[1].kind = call.info.kind /\ pre[2].kind # call.info.kind

\* C9: on a fixed-capacity set of capacity N that holds N elements,
\* merge_add of a non-empty range that neither overlaps nor touches any
\* stored element returns Capacity and leaves the N elements unchanged.
C9_CapacityBoundary ==
  (/\ backing = "heapless" /\ Returned("add")
   /\ Len(pre) = N
   /\ call.info.start < call.info.end
   /\ \A i \in DOMAIN pre :
        pre[i].end < call.info.start \/ call.info.end < pre[i].start)
  => res.tag = "Capacity" /\ set = pre

\* The rejected add on a full set.
C9_Witness ==
  /\ backing = "heapless" /\ Returned("add")
  /\ Len(pre) = N /\ N > 0
  /\ call.info.start < call.info.end
  /\ \A i \in DOMAIN pre :
       pre[i].end < call.info.start \/ call.info.end < pre[i].start
  /\ res.tag = "Capacity" /\ set = pre

\* C10: whenever merge_add on a fixed-capacity set returns Capacity, the
\* stored sequence is identical to the sequence before the call.
C10_CapacityAtomic ==
  (backing = "heapless" /\ Returned("add") /\ res.tag = "Capacity") => set = pre

\* C11: merge_add and merge_remove with an empty or inverted range
\* (start >= end) return Ok and leave the stored sequence unchanged, in
\* every state of the set (a full fixed-capacity set and a set holding
\* non-overwritable elements included); merge_remove on an empty set is
\* also an Ok no-op.
C11_EmptyRangeNoOp ==
  /\ (Returned("add") /\ call.info.start >= call.info.end)
     => res = Ok /\ set = pre
  /\ (Returned("remove") /\ (call.range.start >= call.range.end \/ pre = <<>>))
     => res = Ok /\ set = pre

\* An inverted add of another kind on top of a non-overwritable element of
\* a full fixed-capacity set.
C11_Witness ==
  /\ backing = "heapless" /\ Returned("add")
  /\ call.info.start > call.info.end
  /\ Len(pre) = N /\ N > 0
  /\ res = Ok /\ set = pre
  /\ \E i \in DOMAIN pre :
       /\ ~pre[i].overwritable /\ pre[i].kind # call.info.kind
       /\ pre[i].start < call.info.start /\ call.info.end < pre[i].end

\* merge_add of the backing b, as one call of its own.
MergeAddOn(b, v, e) ==
  IF b = "alloc" THEN alloc_merge_add(v, e) ELSE heapless_merge_add(v, e, BigScratch)
\* The stored sequence after merge_add of items[1], ..., items[k] in turn.
RECURSIVE AfterItems(_, _, _, _)
AfterItems(b, v, items, k) ==
  IF k = 0 THEN v ELSE MergeAddOn(b, AfterItems(b, v, items, k - 1), items[k]).set
\* The items whose merge_add fails when the items before them are applied.
FailingItems(b, v, items) ==
  {k \in DOMAIN items :
     MergeAddOn(b, AfterItems(b, v, items, k - 1), items[k]).res.tag # "Ok"}

\* C12: merge_extend applies merge_add to the items in iteration order and
\* stops at the first item whose merge_add fails, returning that error:
\* every earlier item stays applied and no later item is applied; if no
\* item fails the result is that of merge_add of each item in order.
C12_ExtendStopsAtFirstError ==
  Returned("extend")
  => LET items == call.items
         F == FailingItems(backing, pre, items)
     IN  IF F = {}
           THEN res = Ok /\ set = AfterItems(backing, pre, items, Len(items))
           ELSE LET f == SetMin(F)
                    failed == MergeAddOn(backing, AfterItems(backing, pre, items, f - 1),
                                         items[f])
                IN  res = failed.res /\ set = failed.set

\* A batch whose first item was applied and stays, and whose second item
\* failed with Conflict.
C12_Witness ==
  /\ Returned("extend") /\ Len(call.items) = 2
  /\ res.tag = "Conflict" /\ res.new = call.items[2]
  /\ set # pre
  /\ set = MergeAddOn(backing, pre, call.items[1]).set

\* C13: idempotence of add.  For any reachable set and any element e whose
\* merge_add succeeds, a second merge_add(e) also succeeds and leaves the
\* stored sequence equal to the sequence after the first call.
C13_AddIdempotent ==
  (Returned("add") /\ res.tag = "Ok")
  => LET again == MergeAddOn(backing, set, call.info)
     IN  again.res = Ok /\ again.set = set

\* A first add that filled a fixed-capacity set after cutting into an
\* element of another kind.
C13_Witness ==
  /\ backing = "heapless" /\ Returned("add") /\ res.tag = "Ok"
  /\ call.info.start < call.info.end
  /\ Len(set) = N /\ set # pre
  /\ \E i \in DOMAIN pre :
       pre[i].kind # call.info.kind /\ Points(pre[i]) \cap Points(call.info) # {}

\* The elements of S in ascending order of (start, end).
RECURSIVE Ascending(_)
Ascending(S) ==
  IF S = {} THEN <<>>
  ELSE LET m == CHOOSE x \in S : \A y \in S :
                  x.start < y.start \/ (x.start = y.start /\ x.end <= y.end)
       IN  <<m>> \o Ascending(S \ {m})
Items(c) == {c.items[i] : i \in DOMAIN c.items}

\* C14 as stated: order independence.  For any finite collection of
\* elements of one kind that differ only in their range, adding them to an
\* empty set in any permutation yields the same final stored sequence:
\* every order ends with the sequence the ascending order ends with.
C14_OrderIndependent ==
  Returned("adds")
  => set = add_each(backing, <<>>, Ascending(Items(call)), 1).set

\* C14 as amended: every order in which no merge_add returns Capacity ends
\* with the sequence the growable backing ends with in ascending order.
C14_OrderIndependentNoCapacity ==
  (Returned("adds") /\ res.tag = "Ok")
  => set = add_each("alloc", <<>>, Ascending(Items(call)), 1).set

\* Two separate elements added back to front, then a third that bridges
\* them, on a fixed-capacity set.
C14_Witness ==
  /\ backing = "heapless" /\ Returned("adds") /\ res.tag = "Ok"
  /\ Len(call.items) = 3 /\ Len(set) = 1
  /\ call.items[1].start > call.items[2].end
  /\ call.items[3].start = call.items[2].end
  /\ call.items[3].end = call.items[1].start

\* C15: backing independence.  For every sequence of merge_add /
\* merge_remove / merge_extend calls on which the fixed-capacity
\* implementation never returns Capacity, the growable and the
\* fixed-capacity implementation return the same result for each call and
\* hold the same stored sequence after each call, and merge_contains_point
\* agrees on every value.
C15_BackingIndependent ==
  ~(pc = "returned" /\ res.tag = "Capacity")
  => /\ res = ares
     /\ set = aset
     /\ \A v \in (-1) .. (MaxVal + 1) :
          merge_contains_point(set, v) <=> merge_contains_point(aset, v)

\* A remove on a full fixed-capacity set that cut two elements and left
\* both backings with the same two remainders.
C15_Witness ==
  /\ Returned("remove") /\ res = Ok /\ ares = Ok
  /\ Len(pre) = N /\ Len(set) = 2 /\ set = aset
  /\ set # pre
  /\ \A i \in DOMAIN set : set[i] \notin {pre[j] : j \in DOMAIN pre}

\* C16: every failure of merge_add, merge_remove and merge_extend is
\* reported as a returned Capacity or Conflict value: for any scratch
\* buffer size the caller supplies, no call aborts (panics) mid-operation,
\* in particular not while staging elements into the scratch buffer.
C16_NeverPanics ==
  pc = "returned" => res.tag \in {"Ok", "Capacity", "Conflict"}

\* C17: no broken state is ever observable.  After every return of
\* merge_add, merge_remove or merge_extend on a fixed-capacity set, returns
\* with Capacity or Conflict included, the stored sequence is sorted,
\* non-overlapping, free of empty ranges and free of touching same-kind
\* neighbours.
C17_WellFormedAfterEveryReturn ==
  (backing = "heapless" /\ pc = "returned")
  => /\ SortedDisjoint(set)
     /\ \A i \in 1 .. (Len(set) - 1) :
          ~(set[i].kind = set[i + 1].kind /\ set[i].end >= set[i + 1].start)

\* A remove that returned Capacity and left the first N remainders.
C17_Witness ==
  /\ backing = "heapless" /\ Returned("remove")
  /\ res.tag = "Capacity"
  /\ Len(set) = N /\ set # pre

\* C18: on the growable backing merge_add never returns Capacity (its only
\* error is Conflict) and merge_remove always returns Ok.
C18_AllocNeverCapacity ==
  /\ (backing = "alloc" /\ Returned("add")) => res.tag \in {"Ok", "Conflict"}
  /\ (backing = "alloc" /\ Returned("remove")) => res = Ok

\* An add that made a Vec longer than the fixed capacity N.
C18_Witness ==
  /\ backing = "alloc" /\ Returned("add") /\ res = Ok
  /\ Len(pre) = N /\ Len(set) = N + 1

\* e lies within an element the set held before the call and has its kind
\* and its overwritable flag.
CutFromPre(e) ==
  \E i \in DOMAIN pre :
    /\ pre[i].start <= e.start /\ e.end <= pre[i].end
    /\ e.kind = pre[i].kind
    /\ e.overwritable = pre[i].overwritable

\* C19: every remainder produced by splitting a stored element (by
\* merge_remove, or by the overwrite pass of merge_add) has the kind and
\* the overwritable flag of the element it was cut from, only its range
\* differs; and the elements that pass through an operation untouched keep
\* their kind and flag.  So after merge_remove every stored element, and
\* after merge_add every stored element apart from the one that holds the
\* new range, is such a part of an element stored before.
C19_RemaindersKeepKindAndFlag ==
  /\ Returned("remove") => \A j \in DOMAIN set : CutFromPre(set[j])
  /\ Returned("add")
     => \A j \in DOMAIN set :
          (res.tag # "Ok" \/ Points(set[j]) \cap Points(call.info) = {})
          => CutFromPre(set[j])

\* An add inside an overwritable element of another kind: both remainders
\* are stored, overwritable as the element was.
C19_Witness ==
  /\ Returned("add") /\ res = Ok
  /\ Len(pre) = 1 /\ Len(set) = 3
  /\ pre[1].overwritable /\ pre[1].kind # call.info.kind
  /\ set[1] = [pre[1] EXCEPT !.end = call.info.start]
  /\ set[3] = [pre[1] EXCEPT !.start = call.info.end]

\* C20: with a sufficiently large scratch buffer, merge_add on a
\* fixed-capacity set of capacity N returns Capacity exactly when the
\* normalized result of the add (the sequence the growable implementation
\* would produce) has more than N elements; whenever that result has at
\* most N elements, for example when the new range merges with a same-kind
\* element of a full set, the call succeeds and stores that result.
C20_CapacityIffResultTooLong ==
  (backing = "heapless" /\ Returned("add") /\ res.tag # "Conflict")
  => LET a == alloc_merge_add(pre, call.info)
     IN  /\ res.tag = "Capacity" <=> Len(a.set) > N
         /\ Len(a.set) <= N => res = Ok /\ set = a.set

\* An add on a full set that succeeded by bridging the stored elements.
C20_Witness ==
  /\ backing = "heapless" /\ Returned("add") /\ res = Ok
  /\ Len(pre) = N /\ N > 1 /\ Len(set) = 1
  /\ \A i \in DOMAIN pre : pre[i].kind = call.info.kind
  /\ \E i \in DOMAIN pre : pre[i].end = call.info.start

\* The sequence a call stages in the scratch region.
Staged(v, c) ==
  CASE c.op = "add" -> overwrite_pass(v, c.info, 1)
    [] c.op = "remove" -> split_pass(v, c.range, 1)

\* C21: for a set with n stored elements the sequence staged in the
\* scratch region by the overwrite pass of merge_add and by the split pass
\* of merge_remove never has more than n + 1 elements, so a scratch region
\* with room for n + 1 elements always suffices.
C21_StagedAtMostOneMore ==
  (pc = "returned" /\ call.op \in {"add", "remove"})
  => /\ Len(Staged(pre, call)) <= Len(pre) + 1
     /\ call.slots >= Len(pre) + 1 => res.tag # "Panic"

\* A remove inside the only stored element, with room for exactly two
\* elements in the scratch region: both remainders were staged.
C21_Witness ==
  /\ Returned("remove") /\ res = Ok
  /\ Len(pre) = 1 /\ call.slots = Len(pre) + 1
  /\ Len(Staged(pre, call)) = 2 /\ Len(set) = 2

\* What the call that has just returned does when it is given the scratch
\* region slice.
CallWith(slice) ==
  CASE call.op = "add" -> heapless_merge_add_in(pre, call.info, slice)
    [] call.op = "remove" -> heapless_merge_remove_in(pre, call.range, slice)

\* C22: the scratch region is treated as empty at the start of every call.
\* The result and the final stored sequence of merge_add and merge_remove
\* do not depend on what the region contained before the call: whatever a
\* reused region held, the call returned and left what it returns and
\* leaves with a fresh region and with a region used on another set.
C22_ScratchContentsIgnored ==
  (pc = "returned" /\ call.op \in {"add", "remove"})
  => \A slice \in {FreshTemp} \cup UsedTemps :
       CallWith(slice).res = res /\ CallWith(slice).set = set

\* A call that staged fewer elements than the call before it had left in
\* the region: an element of the earlier call is still in the region
\* behind the staged ones.
C22_Witness ==
  /\ Returned("remove") /\ res = Ok
  /\ Len(pre) = 2 /\ Len(set) = 1
  /\ temp[1] = set[1]
  /\ temp[2] \notin {FreshTemp[1]} \cup {u[1] : u \in UsedTemps}
  /\ temp[2] # set[1]

\* The stored elements of the new element's kind that share a point with it.
SameKindOverlaps(v, new_info) ==
  {i \in DOMAIN v : v[i].kind = new_info.kind
                     /\ Points(v[i]) \cap Points(new_info) # {}}

\* C23: an overlapping stored element of the same kind as the incoming
\* element never causes a Conflict, even when it is not overwritable.  A
\* Conflict names an element of another kind; and when no element of
\* another kind blocks the new range, merge_add returns Ok or Capacity, and
\* on Ok one stored element of the new kind covers the new range and every
\* same-kind element that overlapped it.
C23_SameKindNeverConflicts ==
  (Returned("add") /\ SameKindOverlaps(pre, call.info) # {})
  => /\ res.tag = "Conflict" => res.existing.kind # call.info.kind
     /\ (\A i \in DOMAIN pre : ~Blocks(pre[i], call.info))
        => /\ res.tag \in {"Ok", "Capacity"}
           /\ res = Ok
              => \E j \in DOMAIN set :
                   /\ set[j].kind = call.info.kind
                   /\ Points(call.info) \subseteq Points(set[j])
                   /\ \A i \in SameKindOverlaps(pre, call.info) :
                        Points(pre[i]) \subseteq Points(set[j])

\* An overwritable new range laid across a non-overwritable element of its
\* kind, which it outgrows at both ends.
C23_Witness ==
  /\ Returned("add") /\ res = Ok
  /\ call.info.overwritable
  /\ \E i \in SameKindOverlaps(pre, call.info) :
       /\ ~pre[i].overwritable
       /\ call.info.start < pre[i].start /\ pre[i].end < call.info.end

\* The stored elements that block the new element.
Blockers(v, new_info) == {i \in DOMAIN v : Blocks(v[i], new_info)}

\* C24: merge_add returns Conflict if at least one stored element that
\* overlaps the new range has a different kind and is not overwritable,
\* even when other overlapping elements are overwritable; the existing
\* element reported is the first such element in ascending order, and none
\* of the overwritable elements has been split or removed.
C24_FirstBlockerReported ==
  (/\ Returned("add")
   /\ call.info.start < call.info.end
   /\ Blockers(pre, call.info) # {})
  => /\ res = Conflict(call.info, pre[SetMin(Blockers(pre, call.info))])
     /\ \A i \in DOMAIN pre :
          pre[i].overwritable => i \in DOMAIN set /\ set[i] = pre[i]

\* A new range across an overwritable element followed by two elements
\* that block it: the first of the two is reported.
C24_Witness ==
  /\ Returned("add") /\ res.tag = "Conflict"
  /\ Len(pre) = 3 /\ set = pre
  /\ pre[1].overwritable /\ pre[1].kind # call.info.kind
  /\ Points(pre[1]) \cap Points(call.info) # {}
  /\ Blockers(pre, call.info) = {2, 3}
  /\ res.existing = pre[2]

\* C25: the element produced by a same-kind merge in merge_add carries the
\* incoming element's overwritable flag over the whole unioned range,
\* whatever the flags of the absorbed elements were; so adding an
\* overwritable range that touches or overlaps a non-overwritable element
\* of the same kind makes the whole merged range overwritable.
C25_MergedTakesNewFlag ==
  (/\ Returned("add") /\ res = Ok
   /\ call.info.start < call.info.end
   /\ Mergeable(pre, call.info) # {})
  => LET M == Mergeable(pre, call.info)
         lo == SetMin({call.info.start} \cup {pre[i].start : i \in M})
         hi == SetMax({call.info.end} \cup {pre[i].end : i \in M})
     IN  \E j \in DOMAIN set :
           set[j] = [start |-> lo, end |-> hi, kind |-> call.info.kind,
                     overwritable |-> call.info.overwritable]

\* An overwritable range that touched a non-overwritable element of its
\* kind on its left and overlapped another on its right: the union is
\* overwritable.
C25_Witness ==
  /\ Returned("add") /\ res = Ok
  /\ call.info.overwritable
  /\ Len(pre) = 2 /\ Len(set) = 1
  /\ ~pre[1].overwritable /\ ~pre[2].overwritable
  /\ pre[1].end = call.info.start /\ pre[2].start < call.info.end
  /\ set[1].overwritable
  /\ set[1].start = pre[1].start /\ set[1].end = pre[2].end

\* merge_remove of the backing b, as one call of its own.
MergeRemoveOn(b, v, r) ==
  IF b = "alloc" THEN alloc_merge_remove(v, r) ELSE heapless_merge_remove(v, r, BigScratch)
\* The ranges of the elements of v, in order.
RangesOf(v) == [i \in DOMAIN v |-> range(v[i])]
\* v with every element made overwritable and of one kind.
Plain(v) == [i \in DOMAIN v |-> [v[i] EXCEPT !.kind = "A", !.overwritable = TRUE]]

\* C26: merge_remove ignores the overwritable flag and the kind.  It never
\* returns Conflict, and it returns the value and leaves the ranges that it
\* returns and leaves when every stored element is overwritable and of one
\* kind.
C26_RemoveIgnoresFlagAndKind ==
  Returned("remove")
  => LET plain == MergeRemoveOn(backing, Plain(pre), call.range)
     IN  /\ res.tag # "Conflict"
         /\ res = plain.res
         /\ RangesOf(set) = RangesOf(plain.set)

\* A remove that cut an element that is not overwritable and an
\* overwritable element of another kind.
C26_Witness ==
  /\ Returned("remove") /\ res = Ok
  /\ Len(pre) = 2 /\ Len(set) = 2
  /\ ~pre[1].overwritable /\ pre[2].overwritable /\ pre[1].kind # pre[2].kind
  /\ pre[1].start = set[1].start /\ set[1].end < pre[1].end
  /\ pre[2].start < set[2].start /\ set[2].end = pre[2].end

\* r is not empty and lies strictly inside an element of v.
StrictlyInside(v, r) ==
  /\ r.start < r.end
  /\ \E i \in DOMAIN v : v[i].start < r.start /\ r.end < v[i].end

\* C27: with a sufficiently large scratch buffer, merge_remove on a
\* fixed-capacity set of capacity N returns Capacity exactly when the set
\* holds N elements and the removed (non-empty) range lies strictly inside
\* one element; in every other case it returns Ok, and on Ok the length
\* grows by at most one.
C27_RemoveCapacityIffSplitOfFull ==
  (backing = "heapless" /\ Returned("remove"))
  => /\ res.tag = "Capacity" <=> (Len(pre) = N /\ StrictlyInside(pre, call.range))
     /\ res.tag \in {"Ok", "Capacity"}
     /\ res = Ok => Len(set) <= Len(pre) + 1

\* A remove strictly inside the last element of a full set, rejected.
C27_Witness ==
  /\ backing = "heapless" /\ Returned("remove") /\ res.tag = "Capacity"
  /\ Len(pre) = N /\ N > 0
  /\ pre[N].start < call.range.start /\ call.range.end < pre[N].end

\* The stored elements of another kind that are not overwritable and that
\* the new range only touches.
TouchedOnly(v, new_info) ==
  {i \in DOMAIN v : /\ v[i].kind # new_info.kind
                     /\ ~v[i].overwritable
                     /\ (new_info.start = v[i].end \/ new_info.end = v[i].start)}

\* C28: a new range that only touches a stored element of a different kind
\* (new.start = elem.end or new.end = elem.start, no shared point) is not a
\* conflict, even when that element is not overwritable: a Conflict names
\* another element, merge_add does not return Conflict when no element
\* shares a point with the new range as a blocker, and the touched element
\* is left unchanged.
C28_TouchingIsNoConflict ==
  (Returned("add") /\ call.info.start < call.info.end)
  => \A i \in TouchedOnly(pre, call.info) :
       /\ res.tag = "Conflict" => res.existing # pre[i]
       /\ Blockers(pre, call.info) = {} => res.tag # "Conflict"
       /\ \E j \in DOMAIN set : set[j] = pre[i]

\* A new range that exactly fills the gap between two elements of another
\* kind, neither overwritable: three elements.
C28_Witness ==
  /\ Returned("add") /\ res = Ok
  /\ Len(pre) = 2 /\ Len(set) = 3
  /\ TouchedOnly(pre, call.info) = {1, 2}
  /\ set[1] = pre[1] /\ set[2] = call.info /\ set[3] = pre[2]

\* C29: every call of merge_add and merge_remove on a finite set
\* terminates: the left-merge loop, the right-merge loop and the split scan
\* each finish after at most as many iterations as there are stored
\* elements (and the call then returns what the operation returns).
C29_LoopsTerminate ==
  /\ [](/\ loop.left <= Len(pre) /\ loop.right <= Len(pre) /\ loop.scan <= Len(pre)
        /\ Returned("add")
           => set = MergeAddOn(backing, pre, call.info).set
              /\ res = MergeAddOn(backing, pre, call.info).res
        /\ Returned("remove")
           => set = MergeRemoveOn(backing, pre, call.range).set
              /\ res = MergeRemoveOn(backing, pre, call.range).res)
  /\ (pc = "running") ~> (pc = "returned")

\* An add whose left loop absorbed one element and whose right loop
\* absorbed another before it returned.
C29_Witness ==
  /\ Returned("add") /\ res = Ok
  /\ loop.phase = "done"
  /\ loop.left = 1 /\ loop.right = 1
  /\ Len(pre) = 2 /\ Len(set) = 1

\* C30: on a sequence sorted ascending by start, find_insert_position
\* returns the index of the first element whose start is not less than the
\* new range's start: the number of elements with start < new.start, and
\* the length when there is none, for every sequence length including 0.
C30_FirstNotLess ==
  Returned("find")
  => LET s == call.range.start
         NotLess == {i \in 0 .. Len(set) - 1 : ~(set[i + 1].start < s)}
     IN  /\ res.pos = Cardinality({i \in DOMAIN set : set[i].start < s})
         /\ NotLess = {} => res.pos = Len(set)
         /\ NotLess # {} => /\ res.pos \in NotLess
                            /\ \A i \in NotLess : res.pos <= i

\* Three elements, the last two with the start searched for: the index
\* returned is that of the first of them.
C30_Witness ==
  /\ Returned("find")
  /\ Len(set) = 3
  /\ set[1].start < call.range.start
  /\ set[2].start = call.range.start /\ set[3].start = call.range.start
  /\ res.pos = 1

====
